---- MODULE Spec2Model ----
(***************************************************************************)
(* Model of the trend-segmentation pipeline of find_highs_lows.py          *)
(* (calculate_sma, calculate_derivative, calculate_cumulative_deriv,       *)
(* identify_regions, identify_high_low_markers).                           *)
(*                                                                         *)
(* Representation.  A pandas float column is a function over the           *)
(* positions 0..N-1 whose entries are tagged values: Num(x) or NaN.        *)
(* Arithmetic is exact.  A rolling mean over a window of w values is kept  *)
(* as the window sum, i.e. as a numerator over a fixed denominator:        *)
(*   SMA            numerators over ma_period                              *)
(*   Smoothed, deriv, cumulative_deriv                                     *)
(*                  numerators over ma_period * smooth_period              *)
(* inflection_tol and noise_threshold are numerators over the same         *)
(* denominator ma_period * smooth_period, so every comparison the code     *)
(* makes between a column and a threshold is the comparison of the         *)
(* numerators.  The index of the frame is the position (timestamps are     *)
(* strictly increasing, so labels and positions correspond one to one).    *)
(***************************************************************************)
EXTENDS Integers, Sequences, FiniteSets, TLC

\* ----------------------------------------------------------------- bounds
\* number of candles of a series
MaxN == 6
\* linear series: number of candles, slope magnitude
MaxLinN == 20
MaxSlope == 2

\* series over the wider price range: number of candles
MaxWideN == 6

\* download: last minute of the request window, klines per response
MaxEndTime == 4
MaxBatch == 2

\* swing detector: number of candles, look-ahead window
MaxSwingN == 5
MaxLookAhead == 2

\* Close prices; wick patterns (0: no wicks, 1: upper wick on the even and
\* lower wick on the odd positions, 2: the reverse)
Prices == {1, 2, 3}
Wicks == {0, 1, 2}
SwingPrices == {1, 2, 3}
\* the wider price range: a leg can fall below the start of its group
WidePrices == {1, 2, 3, 4}
SwingPercents == {33, 50}

Periods == {1, 2, 3}
SmoothPeriods == {1, 2}
Tols == {1, 2}
Thresholds == {1, 2}
Paddings == {0, 1}
LinBases == {0, 100}
LinPeriods == {1, 2, 3, 4}
LinSmoothPeriods == {1, 2, 3}
LinTols == {1, 2, 4, 8, 9}

\* ------------------------------------------------------- tagged float values
NaN == [tag |-> "nan", v |-> 0]
None == [tag |-> "none", v |-> 0]
Num(x) == [tag |-> "num", v |-> x]
IsNum(x) == x.tag = "num"
IsNaN(x) == x.tag = "nan"

Abs(x) == IF x < 0 THEN -x ELSE x
Min2(a, b) == IF a < b THEN a ELSE b
Max2(a, b) == IF a > b THEN a ELSE b

\* len(df) of a column
Len0(s) == Cardinality(DOMAIN s)

RECURSIVE SumRange(_, _, _)
\* sum of the numbers s[a..b] (every entry defined)
SumRange(s, a, b) == IF a > b THEN 0 ELSE s[b].v + SumRange(s, a, b - 1)

\* Series.rolling(window=w).mean(): the trailing window ending at j, NaN
\* unless the window lies in the series and holds w defined values
\* (min_periods = window).  The value is the window sum: mean times w.
RollingMean(s, w) ==
  [j \in DOMAIN s |->
     IF j - w + 1 >= 0 /\ \A k \in (j - w + 1)..j : IsNum(s[k])
     THEN Num(SumRange(s, j - w + 1, j))
     ELSE NaN]

\* Series.shift(k): result[i] = s[i - k], NaN where i - k is out of range
Shift(s, k) ==
  [i \in DOMAIN s |-> IF (i - k) \in DOMAIN s THEN s[i - k] ELSE NaN]

\* the difference taken two positions back
Diff_Lag2(s) ==
  [i \in DOMAIN s |->
     IF i - 2 \in DOMAIN s /\ IsNum(s[i]) /\ IsNum(s[i - 2])
     THEN Num(s[i].v - s[i - 2].v)
     ELSE NaN]

\* Series.diff(): s[i] - s[i-1], NaN at 0 and wherever a term is NaN
Diff(s) ==
  [i \in DOMAIN s |->
     IF i - 1 \in DOMAIN s /\ IsNum(s[i]) /\ IsNum(s[i - 1])
     THEN Num(s[i].v - s[i - 1].v)
     ELSE NaN]

VARIABLES pc, Close, High, Low,
          ma_period, smooth_period, inflection_tol, noise_threshold, X,
          SMA, Smoothed, deriv, zero_crossings, cumulative_deriv,
          markers, region_boundaries, region_change_timestamps,
          region_change_markers, high_markers, low_markers,
          high_markers_col, low_markers_col,
          look_ahead, swing_percent, mode, cursor, highs, lows, scanned,
          pickle_file, previous_rows, start_time, end_time, klines,
          all_klines, fetched

vars == <<pc, Close, High, Low,
          ma_period, smooth_period, inflection_tol, noise_threshold, X,
          SMA, Smoothed, deriv, zero_crossings, cumulative_deriv,
          markers, region_boundaries, region_change_timestamps,
          region_change_markers, high_markers, low_markers,
          high_markers_col, low_markers_col,
          look_ahead, swing_percent, mode, cursor, highs, lows, scanned,
          pickle_file, previous_rows, start_time, end_time, klines,
          all_klines, fetched>>

\* the state of main of fetch_data/dl_binance_kline.py: the pickle file, the
\* file as it was when main
\* started, the request window, the last response, the buffer, and the
\* klines main has received into the buffer so far, in order
download == <<pickle_file, previous_rows, start_time, end_time, klines,
              all_klines, fetched>>

\* the state of the swing detector
swing == <<look_ahead, swing_percent, mode, cursor, highs, lows, scanned>>

\* the price columns of the frame, which no stage writes
prices == <<Close, High, Low>>

N == Len0(Close)
Idx == 0..(N - 1)

\* a column that has not been computed yet
Empty == [i \in {} |-> NaN]

\* ------------------------------------------------------------ calculate_sma
\* the rolling mean left at the trailing edge of its window (no shift)
CenteredMean_Trailing(s, w) == RollingMean(s, w)

\* rolling(window=w).mean().shift(-int(w / 2))
CenteredMean(s, w) == Shift(RollingMean(s, w), -(w \div 2))

CloseCol == [i \in DOMAIN Close |-> Num(Close[i])]

\* calculate_sma(df, ma_period, smooth_period), the periods drawn from P, Q
CalculateSma(P, Q) ==
  /\ pc = "loaded"
  /\ ma_period' \in P
  /\ smooth_period' \in Q
  /\ SMA' = CenteredMean(CloseCol, ma_period')
  /\ Smoothed' = CenteredMean(SMA', smooth_period')
  /\ pc' = "sma"
  /\ UNCHANGED <<download, swing, prices, inflection_tol, noise_threshold, X, deriv, zero_crossings, markers, cumulative_deriv,
                 region_boundaries, region_change_timestamps,
                 region_change_markers, high_markers, low_markers,
                 high_markers_col, low_markers_col>>

\* ----------------------------------------------------- calculate_derivative
\* abs(deriv) < inflection_tol; a comparison with NaN is False
ZeroCrossings(d, tol) ==
  [i \in DOMAIN d |-> IsNum(d[i]) /\ Abs(d[i].v) < tol]

\* col[mask] assigned to a column: col where the mask is True, NaN elsewhere
Masked(col, mask) ==
  [i \in DOMAIN col |-> IF mask[i] THEN col[i] ELSE NaN]

\* calculate_derivative(df, ma_period, inflection_tol), the tolerance drawn
\* from T
CalculateDerivative(T) ==
  /\ pc = "sma"
  /\ inflection_tol' \in T
  /\ deriv' = Diff(Smoothed)
  /\ zero_crossings' = ZeroCrossings(deriv', inflection_tol')
  /\ markers' = Masked(Smoothed, zero_crossings')
  /\ pc' = "deriv"
  /\ UNCHANGED <<download, swing, prices, ma_period, smooth_period, noise_threshold, X, SMA, Smoothed, cumulative_deriv,
                 region_boundaries, region_change_timestamps,
                 region_change_markers, high_markers, low_markers,
                 high_markers_col, low_markers_col>>

\* ----------------------------------------------- calculate_cumulative_deriv
RECURSIVE CumCount(_, _)
\* number of True entries of z at the positions 0..i
CumCount(z, i) ==
  IF i < 0 THEN 0 ELSE (IF z[i] THEN 1 ELSE 0) + CumCount(z, i - 1)

\* zero_crossings.cumsum(): the group id of every position
Groups(z) == [i \in DOMAIN z |-> CumCount(z, i)]

\* the positions of the group that holds position i
GroupOf(g, i) == {k \in DOMAIN g : g[k] = g[i]}

RECURSIVE SumGroup(_, _, _, _)
\* sum of the defined entries of d at the positions 0..k of the group of i
SumGroup(d, g, i, k) ==
  IF k < 0 THEN 0
  ELSE (IF g[k] = g[i] /\ IsNum(d[k]) THEN d[k].v ELSE 0)
       + SumGroup(d, g, i, k - 1)

\* df.groupby(groups)[deriv].cumsum(): the running sum inside each group;
\* a NaN entry stays NaN and is skipped by the running sum (skipna)
GroupCumsum(d, g) ==
  [i \in DOMAIN d |-> IF IsNum(d[i]) THEN Num(SumGroup(d, g, i, i)) ELSE NaN]

\* Series.max() / Series.min() of a group: NaN entries are skipped, the
\* result is NaN when no entry is defined
SeriesMax(group) ==
  LET D == {i \in DOMAIN group : IsNum(group[i])}
  IN IF D = {} THEN NaN
     ELSE Num(CHOOSE m \in {group[i].v : i \in D} :
                \A i \in D : group[i].v <= m)

SeriesMin(group) ==
  LET D == {i \in DOMAIN group : IsNum(group[i])}
  IN IF D = {} THEN NaN
     ELSE Num(CHOOSE m \in {group[i].v : i \in D} :
                \A i \in D : group[i].v >= m)

\* a < b and a > b on floats: False when a is NaN
FloatLt(a, b) == IsNum(a) /\ a.v < b
FloatGt(a, b) == IsNum(a) /\ a.v > b

\* the rejection test with the thresholds included
reset_cumsum_Closed(group, threshold) ==
  IF IsNum(SeriesMax(group)) /\ SeriesMax(group).v <= threshold
     /\ SeriesMin(group).v >= -threshold
  THEN [i \in DOMAIN group |-> Num(0)]
  ELSE group

\* reset_cumsum(group), with the noise_threshold of the enclosing call
reset_cumsum(group, threshold) ==
  IF FloatLt(SeriesMax(group), threshold)
     /\ FloatGt(SeriesMin(group), -threshold)
  THEN [i \in DOMAIN group |-> Num(0)]
  ELSE group

\* groupby(groups)[col].transform(reset_cumsum): reset_cumsum applied to the
\* sub-series of each group, the results put back at the positions of the
\* group
Transform(c, g, threshold) ==
  [i \in DOMAIN c |->
     reset_cumsum([k \in GroupOf(g, i) |-> c[k]], threshold)[i]]

\* calculate_cumulative_deriv(df, zero_crossings, noise_threshold), the
\* threshold drawn from T
CalculateCumulativeDeriv(T) ==
  /\ pc = "deriv"
  /\ noise_threshold' \in T
  /\ LET groups == Groups(zero_crossings)
     IN cumulative_deriv' =
          Transform(GroupCumsum(deriv, groups), groups, noise_threshold')
  /\ pc' = "cumderiv"
  /\ UNCHANGED <<download, swing, prices, ma_period, smooth_period, inflection_tol, X, SMA, Smoothed, deriv, zero_crossings, markers,
                 region_boundaries, region_change_timestamps,
                 region_change_markers, high_markers, low_markers,
                 high_markers_col, low_markers_col>>

\* --------------------------------------------------------- identify_regions
\* np.sign on a float column: -1, 0, +1, and NaN for NaN
Sign(x) ==
  IF IsNum(x)
  THEN Num(IF x.v > 0 THEN 1 ELSE IF x.v < 0 THEN -1 ELSE 0)
  ELSE NaN

\* Python's a != b on floats and None: a NaN differs from everything,
\* itself included
PyNe(a, b) == IsNaN(a) \/ IsNaN(b) \/ a # b

\* the region sign appended before current_sign is updated
RegionStep_AppendBeforeUpdate(st, idx, sign) ==
  LET change == PyNe(sign, Num(0)) /\ PyNe(sign, st.current_sign)
  IN [current_sign |-> IF change THEN sign ELSE st.current_sign,
      regions |-> Append(st.regions,
                         IF st.current_sign # None THEN st.current_sign
                         ELSE Num(0)),
      timestamps |-> IF change /\ st.current_sign # None
                     THEN Append(st.timestamps, idx)
                     ELSE st.timestamps]

\* the sign of the position appended in place of current_sign
RegionStep_AppendSign(st, idx, sign) ==
  LET change == PyNe(sign, Num(0)) /\ PyNe(sign, st.current_sign)
  IN [current_sign |-> IF change THEN sign ELSE st.current_sign,
      regions |-> Append(st.regions, sign),
      timestamps |-> IF change /\ st.current_sign # None
                     THEN Append(st.timestamps, idx)
                     ELSE st.timestamps]

\* a change recorded at every non-zero sign, without the comparison with
\* current_sign
RegionStep_NoSignCompare(st, idx, sign) ==
  LET change == PyNe(sign, Num(0))
      cur == IF change THEN sign ELSE st.current_sign
  IN [current_sign |-> cur,
      regions |-> Append(st.regions, IF cur # None THEN cur ELSE Num(0)),
      timestamps |-> IF change /\ st.current_sign # None
                     THEN Append(st.timestamps, idx)
                     ELSE st.timestamps]

\* one iteration of the loop of identify_regions, on the loop state st =
\* (current_sign, regions, region_change_timestamps)
RegionStep(st, idx, sign) ==
  LET change == PyNe(sign, Num(0)) /\ PyNe(sign, st.current_sign)
      cur == IF change THEN sign ELSE st.current_sign
  IN [current_sign |-> cur,
      regions |-> Append(st.regions, IF cur # None THEN cur ELSE Num(0)),
      timestamps |-> IF change /\ st.current_sign # None
                     THEN Append(st.timestamps, idx)
                     ELSE st.timestamps]

RECURSIVE RegionScan(_, _)
\* the loop of identify_regions after the positions 0..n-1
RegionScan(signs, n) ==
  IF n = 0
  THEN [current_sign |-> None, regions |-> <<>>, timestamps |-> <<>>]
  ELSE RegionStep(RegionScan(signs, n - 1), n - 1, signs[n - 1])

\* a Python list as a column over the positions 0..n-1
ListToCol(l) == [i \in 0..(Len(l) - 1) |-> l[i + 1]]

\* the entries of a Python list
Range(l) == {l[k] : k \in 1..Len(l)}

\* df.loc[labels, col] = src on a column of NaN
LocAssign(labels, src) ==
  [i \in DOMAIN src |-> IF i \in Range(labels) THEN Num(src[i]) ELSE NaN]

identify_regions ==
  /\ pc = "cumderiv"
  /\ LET signs == [i \in DOMAIN cumulative_deriv |-> Sign(cumulative_deriv[i])]
         st == RegionScan(signs, Len0(signs))
     IN /\ region_boundaries' = ListToCol(st.regions)
        /\ region_change_timestamps' = st.timestamps
        /\ region_change_markers' = LocAssign(st.timestamps, Close)
  /\ pc' = "regions"
  /\ UNCHANGED <<download, swing, prices, ma_period, smooth_period, inflection_tol,
                 noise_threshold, X, SMA, Smoothed, deriv, zero_crossings, markers,
                 cumulative_deriv, high_markers, low_markers,
                 high_markers_col, low_markers_col>>

\* ------------------------------------------------ identify_high_low_markers
\* Series.iloc[a:b+1].idxmax() / idxmin(): the first position of the extreme
IdxMax(s, a, b) ==
  CHOOSE i \in a..b : /\ \A k \in a..b : s[k] <= s[i]
                      /\ \A k \in a..(i - 1) : s[k] < s[i]

IdxMin(s, a, b) ==
  CHOOSE i \in a..b : /\ \A k \in a..b : s[k] >= s[i]
                      /\ \A k \in a..(i - 1) : s[k] > s[i]

\* unary minus on a float
Neg(x) == IF IsNum(x) THEN Num(-x.v) ELSE NaN

\* start_idx, end_idx and region_sign for the k-th boundary (k = 1 is the
\* first boundary, handled before the loop)
StartIdx(ts, k, pad) == IF k = 1 THEN 0 ELSE Max2(0, ts[k - 1] - pad)
EndIdx(ts, k, pad) == Min2(N - 1, ts[k] + pad)
RegionSignAt(ts, k) == Neg(region_boundaries[ts[k]])

RECURSIVE HighMarkers_SkipFirst(_, _, _)
\* high_markers without the block that handles the first boundary
HighMarkers_SkipFirst(ts, k, pad) ==
  IF k <= 1 THEN <<>>
  ELSE IF FloatGt(RegionSignAt(ts, k), 0)
       THEN Append(HighMarkers_SkipFirst(ts, k - 1, pad),
                   IdxMax(High, StartIdx(ts, k, pad), EndIdx(ts, k, pad)))
       ELSE HighMarkers_SkipFirst(ts, k - 1, pad)

RECURSIVE HighMarkers(_, _, _)
\* high_markers after the first k boundaries
HighMarkers(ts, k, pad) ==
  IF k = 0 THEN <<>>
  ELSE IF FloatGt(RegionSignAt(ts, k), 0)
       THEN Append(HighMarkers(ts, k - 1, pad),
                   IdxMax(High, StartIdx(ts, k, pad), EndIdx(ts, k, pad)))
       ELSE HighMarkers(ts, k - 1, pad)

RECURSIVE LowMarkers(_, _, _)
\* low_markers after the first k boundaries
LowMarkers(ts, k, pad) ==
  IF k = 0 THEN <<>>
  ELSE IF ~FloatGt(RegionSignAt(ts, k), 0) /\ FloatLt(RegionSignAt(ts, k), 0)
       THEN Append(LowMarkers(ts, k - 1, pad),
                   IdxMin(Low, StartIdx(ts, k, pad), EndIdx(ts, k, pad)))
       ELSE LowMarkers(ts, k - 1, pad)

\* identify_high_low_markers(df, region_change_timestamps, X), the padding
\* drawn from P
IdentifyHighLowMarkers(P) ==
  /\ pc = "regions"
  /\ X' \in P
  /\ high_markers' = HighMarkers(region_change_timestamps,
                                 Len(region_change_timestamps), X')
  /\ low_markers' = LowMarkers(region_change_timestamps,
                               Len(region_change_timestamps), X')
  /\ high_markers_col' = LocAssign(high_markers', High)
  /\ low_markers_col' = LocAssign(low_markers', Low)
  /\ pc' = "markers"
  /\ UNCHANGED <<download, swing, prices, ma_period, smooth_period, inflection_tol,
                 noise_threshold, SMA, Smoothed, deriv, zero_crossings,
                 markers, cumulative_deriv, region_boundaries,
                 region_change_timestamps, region_change_markers>>

\* ------------------------------------------------------------ SwingDetector
\* detect(series, lookAhead, swingPercent): the alternating-mode forward
\* scan.  One action is one iteration of the outer loop
\* (while cursor < N - lookAhead); the scan of the window is the recursion
\* below.  Percent comparisons are cross-multiplied by 100.

\* the confirmation condition Low[i] <= candidateHigh * (1 - swingPercent/100)
ConfirmsHigh(i, candidate) ==
  100 * Low[i] <= candidate * (100 - swing_percent)

\* the confirmation condition High[i] >= candidateLow * (1 + swingPercent/100)
ConfirmsLow(i, candidate) ==
  100 * High[i] >= candidate * (100 + swing_percent)

RECURSIVE ScanHigh(_, _, _, _)
\* the scan of the positions i..last with the running maximum value at idx:
\* the candidate it ends with and the last position it read
ScanHigh(i, last, value, idx) ==
  IF i > last THEN [value |-> value, idx |-> idx, upto |-> last]
  ELSE IF High[i] > value
       THEN IF ConfirmsHigh(i, High[i])
            THEN [value |-> High[i], idx |-> i, upto |-> i]
            ELSE ScanHigh(i + 1, last, High[i], i)
       ELSE ScanHigh(i + 1, last, value, idx)

RECURSIVE ScanLow(_, _, _, _)
\* the mirror scan with the running minimum
ScanLow(i, last, value, idx) ==
  IF i > last THEN [value |-> value, idx |-> idx, upto |-> last]
  ELSE IF Low[i] < value
       THEN IF ConfirmsLow(i, Low[i])
            THEN [value |-> Low[i], idx |-> i, upto |-> i]
            ELSE ScanLow(i + 1, last, Low[i], i)
       ELSE ScanLow(i + 1, last, value, idx)

pipeline == <<ma_period, smooth_period, inflection_tol, noise_threshold, X,
              SMA, Smoothed, deriv, zero_crossings, cumulative_deriv,
              markers, region_boundaries, region_change_timestamps,
              region_change_markers, high_markers, low_markers,
              high_markers_col, low_markers_col>>

\* one iteration in mode SeekingHigh
SeekHigh ==
  /\ pc = "detect" /\ mode = "SeekingHigh"
  /\ cursor < N - look_ahead
  /\ LET r == ScanHigh(cursor + 1, cursor + look_ahead, High[cursor], cursor)
     IN /\ scanned' = scanned \cup (cursor..r.upto)
        /\ IF r.idx > cursor
           THEN /\ highs' = highs @@ (r.idx :> r.value)
                /\ mode' = "SeekingLow"
                /\ cursor' = r.idx + 1
           ELSE /\ cursor' = cursor + look_ahead + 1
                /\ UNCHANGED <<highs, mode>>
  /\ UNCHANGED <<pc, download, prices, pipeline, look_ahead, swing_percent, lows>>

\* one iteration in mode SeekingLow
SeekLow ==
  /\ pc = "detect" /\ mode = "SeekingLow"
  /\ cursor < N - look_ahead
  /\ LET r == ScanLow(cursor + 1, cursor + look_ahead, Low[cursor], cursor)
     IN /\ scanned' = scanned \cup (cursor..r.upto)
        /\ IF r.idx > cursor
           THEN /\ lows' = lows @@ (r.idx :> r.value)
                /\ mode' = "SeekingHigh"
                /\ cursor' = r.idx + 1
           ELSE /\ cursor' = cursor + look_ahead + 1
                /\ UNCHANGED <<lows, mode>>
  /\ UNCHANGED <<pc, download, prices, pipeline, look_ahead, swing_percent, highs>>

\* the loop ends when cursor >= N - lookAhead; detect returns highs, lows
DetectReturn ==
  /\ pc = "detect"
  /\ cursor >= N - look_ahead
  /\ pc' = "detected"
  /\ UNCHANGED <<download, prices, pipeline, swing>>

\* ------------------------------------------------ fetch_data/dl_binance_kline
\* main(pair, interval, start_date).  Time is counted in minutes, a kline is
\* its open time, and a row of the pickle file is the kline it was made from
\* (convert_data_types keeps one row per kline, in order).  pc is the
\* position in main:
\*   "fetch_loop"   at the while test (line 101)
\*   "fetch_got"    fetch_klines has returned a non-empty list (line 109)
\*   "fetch_check"  the buffer is extended, at the save test (line 117)
\*   "fetch_saved"  save_data has returned (line 133)
\*   "fetch_final"  after the try statement (line 142)
\*   "fetch_done"   after the final save (line 160)

\* the pickle file: absent (os.path.exists is False) or holding rows
NoFile == [exists |-> FALSE, rows |-> <<>>]
FileOf(rows) == [exists |-> TRUE, rows |-> rows]

\* the value of fetch_klines: None after a request error, else a list
NoKlines == [ok |-> FALSE, list |-> <<>>]
KlinesOf(list) == [ok |-> TRUE, list |-> list]

\* the rows of the pickle file, none while it does not exist
Rows(file) == IF file.exists THEN file.rows ELSE <<>>

\* a response with the b klines that open at t, t+1, ...
Batch(t, b) == [i \in 1..b |-> t + i - 1]

\* what fetch_klines can return for the window start_time..end_time: None
\* after a request error, an empty list, or up to MaxBatch klines from
\* start_time on
Responses ==
  {NoKlines, KlinesOf(<<>>)}
    \cup {KlinesOf(Batch(start_time, b)) :
            b \in 1..Min2(MaxBatch, end_time - start_time + 1)}

\* new_df built from the buffer, concatenated to the loaded file when the
\* file exists
Concat(file, buffer) == FileOf(Rows(file) \o buffer)

\* lines 101-108: the while test holds, fetch_klines returns; None and the
\* empty list leave the loop
fetch_klines ==
  /\ pc = "fetch_loop"
  /\ start_time < end_time
  /\ \E response \in Responses :
       /\ klines' = response
       /\ pc' = IF ~response.ok \/ Len(response.list) = 0
                THEN "fetch_final" ELSE "fetch_got"
  /\ UNCHANGED <<pickle_file, previous_rows, start_time, end_time,
                 all_klines, fetched, prices, pipeline, swing>>

\* line 101: the while test fails
loop_exit ==
  /\ pc = "fetch_loop"
  /\ start_time >= end_time
  /\ pc' = "fetch_final"
  /\ UNCHANGED <<download, prices, pipeline, swing>>

\* lines 110-114: the buffer takes the response, the window moves on
extend ==
  /\ pc = "fetch_got"
  /\ all_klines' = all_klines \o klines.list
  /\ fetched' = fetched \o klines.list
  /\ start_time' = klines.list[Len(klines.list)] + 1
  /\ pc' = "fetch_check"
  /\ UNCHANGED <<pickle_file, previous_rows, end_time, klines,
                 prices, pipeline, swing>>

\* line 117: fewer than TIME_BEFORE_SAVE seconds since the last save
save_not_due ==
  /\ pc = "fetch_check"
  /\ pc' = "fetch_loop"
  /\ UNCHANGED <<download, prices, pipeline, swing>>

\* lines 117-132: the save interval has passed, the buffer is appended to
\* the file
periodic_save ==
  /\ pc = "fetch_check"
  /\ pickle_file' = Concat(pickle_file, all_klines)
  /\ pc' = "fetch_saved"
  /\ UNCHANGED <<previous_rows, start_time, end_time, klines, all_klines,
                 fetched, prices, pipeline, swing>>

\* lines 133-135: the buffer and the timer are reset
reset_buffer ==
  /\ pc = "fetch_saved"
  /\ all_klines' = <<>>
  /\ pc' = "fetch_loop"
  /\ UNCHANGED <<pickle_file, previous_rows, start_time, end_time, klines,
                 fetched, prices, pipeline, swing>>

\* lines 137-140: a KeyboardInterrupt or another exception raised inside the
\* loop is caught and main goes on to the final save
interrupted ==
  /\ pc \in {"fetch_loop", "fetch_got", "fetch_check", "fetch_saved"}
  /\ pc' = "fetch_final"
  /\ UNCHANGED <<download, prices, pipeline, swing>>

\* lines 143-159: the remaining klines of the buffer are appended to the file
final_save ==
  /\ pc = "fetch_final"
  /\ pickle_file' = IF Len(all_klines) > 0
                    THEN Concat(pickle_file, all_klines)
                    ELSE pickle_file
  /\ pc' = "fetch_done"
  /\ UNCHANGED <<previous_rows, start_time, end_time, klines, all_klines,
                 fetched, prices, pipeline, swing>>

\* ------------------------------------------------------------ specification
\* the frame as loaded: the price columns and the adjustable parameters of
\* __main__; no derived column exists yet
\* the swing detector before detect is called
SwingIdle ==
  /\ look_ahead = None /\ swing_percent = None /\ mode = None
  /\ cursor = None /\ highs = <<>> /\ lows = <<>> /\ scanned = {}

\* main of fetch_data/dl_binance_kline.py before it is called
DownloadIdle ==
  /\ pickle_file = NoFile /\ previous_rows = NoFile
  /\ start_time = 0 /\ end_time = 0 /\ klines = NoKlines
  /\ all_klines = <<>> /\ fetched = <<>>

\* the columns and parameters of the pipeline before its first stage
NothingDerived ==
  /\ ma_period = None /\ smooth_period = None /\ inflection_tol = None
  /\ noise_threshold = None /\ X = None
  /\ SMA = Empty /\ Smoothed = Empty /\ deriv = Empty
  /\ zero_crossings = Empty /\ markers = Empty /\ cumulative_deriv = Empty
  /\ region_boundaries = Empty /\ region_change_timestamps = <<>>
  /\ region_change_markers = Empty
  /\ high_markers = <<>> /\ low_markers = <<>>
  /\ high_markers_col = Empty /\ low_markers_col = Empty

Loaded ==
  /\ pc = "loaded"
  /\ SwingIdle
  /\ DownloadIdle
  /\ NothingDerived

\* High and Low of the candles around Close: high >= close >= low
WickHigh(c, w) ==
  [i \in DOMAIN c |-> c[i] + (IF w # 0 /\ i % 2 = w - 1 THEN 1 ELSE 0)]
WickLow(c, w) ==
  [i \in DOMAIN c |-> c[i] - (IF w # 0 /\ i % 2 # w - 1 THEN 1 ELSE 0)]

Init ==
  /\ \E n \in 1..MaxN : Close \in [0..(n - 1) -> Prices]
  /\ \E w \in Wicks : High = WickHigh(Close, w) /\ Low = WickLow(Close, w)
  /\ Loaded

calculate_sma == CalculateSma(Periods, SmoothPeriods)
calculate_derivative == CalculateDerivative(Tols)
calculate_cumulative_deriv == CalculateCumulativeDeriv(Thresholds)
identify_high_low_markers == IdentifyHighLowMarkers(Paddings)

Next ==
  \/ calculate_sma
  \/ calculate_derivative
  \/ calculate_cumulative_deriv
  \/ identify_regions
  \/ identify_high_low_markers

Spec == Init /\ [][Next]_vars

\* Close series that are exactly linear in the index, Close[i] = a + m*i,
\* with non-negative prices
InitLinear ==
  /\ \E n \in 2..MaxLinN, m \in (-MaxSlope)..MaxSlope, a \in LinBases :
       Close = [i \in 0..(n - 1) |->
                  a + m * i + (IF m < 0 THEN (-m) * (n - 1) ELSE 0)]
  /\ High = Close
  /\ Low = Close
  /\ Loaded

calculate_sma_linear == CalculateSma(LinPeriods, LinSmoothPeriods)
calculate_derivative_linear == CalculateDerivative(LinTols)

NextLinear ==
  \/ calculate_sma_linear
  \/ calculate_derivative_linear
  \/ calculate_cumulative_deriv
  \/ identify_regions
  \/ identify_high_low_markers

SpecLinear == InitLinear /\ [][NextLinear]_vars

\* candles without wicks over the wider price range, through the same
\* pipeline
InitWide ==
  /\ \E n \in 1..MaxWideN : Close \in [0..(n - 1) -> WidePrices]
  /\ High = Close
  /\ Low = Close
  /\ Loaded

SpecWide == InitWide /\ [][Next]_vars

\* main is called: the pickle file is absent or holds the row of minute 0,
\* the window starts one minute after the last saved row (lines 79-81, 93)
InitFetch ==
  /\ pickle_file \in {NoFile, FileOf(<<0>>)}
  /\ previous_rows = pickle_file
  /\ start_time = 1
  /\ end_time \in 1..MaxEndTime
  /\ klines = NoKlines
  /\ all_klines = <<>> /\ fetched = <<>>
  /\ pc = "fetch_loop"
  /\ Close = <<>> /\ High = <<>> /\ Low = <<>>
  /\ SwingIdle
  /\ NothingDerived

NextFetch ==
  \/ fetch_klines
  \/ loop_exit
  \/ extend
  \/ save_not_due
  \/ periodic_save
  \/ reset_buffer
  \/ interrupted
  \/ final_save

SpecFetch == InitFetch /\ [][NextFetch]_vars

\* a call of detect: candles with low <= close <= high, a positive lookAhead
\* and swingPercent, the scan at the start of the series in mode SeekingHigh
InitSwing ==
  /\ \E n \in 1..MaxSwingN :
       /\ High \in [0..(n - 1) -> SwingPrices]
       /\ Low \in [0..(n - 1) -> SwingPrices]
       /\ \A i \in 0..(n - 1) : Low[i] <= High[i]
  /\ Close = Low
  /\ look_ahead \in 1..MaxLookAhead
  /\ swing_percent \in SwingPercents
  /\ mode = "SeekingHigh" /\ cursor = 0
  /\ highs = <<>> /\ lows = <<>> /\ scanned = {}
  /\ pc = "detect"
  /\ NothingDerived
  /\ DownloadIdle

NextSwing ==
  \/ SeekHigh
  \/ SeekLow
  \/ DetectReturn

SpecSwing == InitSwing /\ [][NextSwing]_vars

\* ------------------------------------------------------------------ claims
SmaDone == pc # "loaded"
DerivDone == pc \notin {"loaded", "sma"}
CumDone == pc \notin {"loaded", "sma", "deriv"}
RegionsDone == pc \in {"regions", "markers"}
MarkersDone == pc = "markers"

\* C9 as stated: sma[i] is defined exactly for i <= N - period and is the
\* mean of Close[i .. i+period-1] (the SMA column holds period times the mean)
C9_SmaForwardWindow ==
  SmaDone =>
    \A i \in Idx :
      /\ IsNum(SMA[i]) <=> i <= N - ma_period
      /\ IsNum(SMA[i]) =>
           /\ i + ma_period - 1 <= N - 1
           /\ SMA[i].v = SumRange(CloseCol, i, i + ma_period - 1)

\* C9 amended: with h = floor(period / 2), sma[i] is defined exactly for
\* period-1-h <= i <= N-1-h (undefined for the first period-1-h and the last
\* h positions) and is the mean of the period values of Close that end at
\* i+h, Close[i+h-period+1 .. i+h]
C9_SmaCenteredWindow ==
  SmaDone =>
    LET h == ma_period \div 2
    IN \A i \in Idx :
         /\ IsNum(SMA[i]) <=> (ma_period - 1 - h <= i /\ i <= N - 1 - h)
         /\ IsNum(SMA[i]) =>
              SMA[i].v = SumRange(CloseCol, i + h - ma_period + 1, i + h)

\* a period of 3 on at least 4 candles: the first and the last position are
\* undefined, position 1 is defined
C9_Witness ==
  /\ pc = "sma" /\ ma_period = 3 /\ N >= 4
  /\ IsNaN(SMA[0]) /\ IsNum(SMA[1]) /\ IsNaN(SMA[N - 1])

\* the slope of a linear series
Slope == Close[1] - Close[0]
IsLinear == \A i \in 1..(N - 1) : Close[i] - Close[i - 1] = Slope

\* C10: on a Close series that is exactly linear with slope m the derivative
\* equals m wherever it is defined (its numerator is m * period *
\* smoothPeriod), and the zero-crossing mask is False everywhere when
\* inflectionTol <= |m|
C10_LinearDerivative ==
  (DerivDone /\ N >= 2 /\ IsLinear) =>
    /\ \A i \in Idx :
         IsNum(deriv[i]) => deriv[i].v = Slope * ma_period * smooth_period
    /\ inflection_tol <= Abs(Slope) * ma_period * smooth_period =>
         \A i \in Idx : ~zero_crossings[i]

\* a sloped series with a defined derivative, smoothed with both periods
\* above 1, and a tolerance equal to |m|
C10_Witness ==
  /\ DerivDone /\ N >= 2 /\ IsLinear /\ Slope # 0
  /\ ma_period = 4 /\ smooth_period = 2
  /\ inflection_tol = Abs(Slope) * ma_period * smooth_period
  /\ \E i \in Idx : IsNum(deriv[i])

\* the list region_change_timestamps as a set of positions
Boundaries == Range(region_change_timestamps)

\* the region sign flips at i between the two non-zero values
SignFlipAt(i) ==
  /\ i - 1 \in Idx
  /\ \E sgn \in {1, -1} : /\ region_boundaries[i - 1] = Num(sgn)
                          /\ region_boundaries[i] = Num(-sgn)

\* C1 as stated: an index is recorded in regionChangeIndices exactly when
\* the region sign goes there from one of +1, -1 to the other; the first
\* confirmed sign records nothing and no other index is recorded
C1_BoundaryIffSignFlip ==
  RegionsDone => \A i \in Idx : i \in Boundaries <=> SignFlipAt(i)

\* C2 as stated: the region sign differs from its predecessor only at an
\* entry of regionChangeIndices
C2_ChangeOnlyAtBoundary ==
  RegionsDone =>
    \A i \in Idx \ {0} :
      region_boundaries[i] # region_boundaries[i - 1] => i \in Boundaries

\* C2 amended: the region sign differs from its predecessor only at an entry
\* of regionChangeIndices or where the predecessor is the neutral 0 (the
\* first confirmed sign, which starts the first region without a boundary)
C2_ChangeAtBoundaryOrFirstSign ==
  RegionsDone =>
    \A i \in Idx \ {0} :
      region_boundaries[i] # region_boundaries[i - 1] =>
        i \in Boundaries \/ region_boundaries[i - 1] = Num(0)

\* a neutral stretch, then the first sign at a position that is no boundary,
\* then a flip of the sign at a boundary
C2_Witness ==
  /\ RegionsDone
  /\ \E i, j \in Idx \ {0} :
       /\ i < j
       /\ region_boundaries[i - 1] = Num(0)
       /\ region_boundaries[i] \in {Num(1), Num(-1)}
       /\ i \notin Boundaries
       /\ SignFlipAt(j) /\ j \in Boundaries

\* the members of the group of i that hold a defined running sum
DefinedIn(rs, g, i) == {k \in GroupOf(g, i) : IsNum(rs[k])}

\* every defined running sum of the group of i is strictly inside the
\* thresholds, and there is one
NoiseRejected(rs, g, i) ==
  /\ DefinedIn(rs, g, i) # {}
  /\ \A k \in DefinedIn(rs, g, i) : /\ rs[k].v < noise_threshold
                                    /\ rs[k].v > -noise_threshold

GroupZeroed(g, i) == \A k \in GroupOf(g, i) : cumulative_deriv[k] = Num(0)
GroupKept(rs, g, i) == \A k \in GroupOf(g, i) : cumulative_deriv[k] = rs[k]

\* C3 as stated, on the groups whose running sums are all defined: the group
\* is zeroed exactly when every running sum v has
\* -noiseThreshold <= v <= +noiseThreshold, and is else left as computed
C3_ZeroedIffWithinClosed ==
  CumDone =>
    LET g == Groups(zero_crossings)
        rs == GroupCumsum(deriv, g)
    IN \A i \in Idx :
         DefinedIn(rs, g, i) = GroupOf(g, i) =>
           IF \A k \in GroupOf(g, i) : /\ rs[k].v <= noise_threshold
                                       /\ rs[k].v >= -noise_threshold
           THEN GroupZeroed(g, i)
           ELSE GroupKept(rs, g, i)

\* C3 amended: a group is zeroed (every entry, the undefined ones included)
\* exactly when it has a defined running sum and every defined running sum v
\* has -noiseThreshold < v < +noiseThreshold, strictly: a sum that reaches
\* the threshold exactly is kept; in every other case the group is left
\* exactly as computed
C3_ZeroedIffWithinOpen ==
  CumDone =>
    LET g == Groups(zero_crossings)
        rs == GroupCumsum(deriv, g)
    IN \A i \in Idx :
         IF NoiseRejected(rs, g, i)
         THEN GroupZeroed(g, i)
         ELSE GroupKept(rs, g, i)

\* a group whose running sum reaches the threshold exactly and is kept, next
\* to a group with a non-zero sum inside the thresholds that is zeroed
C3_Witness ==
  /\ CumDone
  /\ LET g == Groups(zero_crossings)
         rs == GroupCumsum(deriv, g)
     IN \E i, j \in Idx :
          /\ DefinedIn(rs, g, i) = GroupOf(g, i)
          /\ \E k \in GroupOf(g, i) : Abs(rs[k].v) = noise_threshold
          /\ \A k \in GroupOf(g, i) : Abs(rs[k].v) <= noise_threshold
          /\ GroupKept(rs, g, i) /\ ~GroupZeroed(g, i)
          /\ \E k \in DefinedIn(rs, g, j) : rs[k].v # 0
          /\ GroupZeroed(g, j)

\* C4: wherever the smoothed moving average is undefined, the derivative,
\* the cumulative derivative and the region sign are undefined too
C4_UndefinedPropagates ==
  \A i \in Idx :
    (SmaDone /\ IsNaN(Smoothed[i])) =>
      /\ DerivDone => IsNaN(deriv[i])
      /\ CumDone => IsNaN(cumulative_deriv[i])
      /\ RegionsDone => IsNaN(region_boundaries[i])

\* no entry of the cumulative derivative is undefined
AllDefined == \A i \in Idx : IsNum(cumulative_deriv[i])

\* C7 as stated, on the runs whose cumulative derivative has no undefined
\* entry: the region sign is 0 at every index of a group that noise
\* rejection zeroes
C7_ZeroedGroupIsNeutral ==
  (RegionsDone /\ AllDefined) =>
    LET g == Groups(zero_crossings)
        rs == GroupCumsum(deriv, g)
    IN \A i \in Idx :
         NoiseRejected(rs, g, i) => region_boundaries[i] = Num(0)

\* the region sign in force before the group of i: 0 at the start of the
\* series, else the region sign of the position before the group
SignBeforeGroup(g, i) ==
  LET first == CHOOSE k \in GroupOf(g, i) : \A j \in GroupOf(g, i) : k <= j
  IN IF first = 0 THEN Num(0) ELSE region_boundaries[first - 1]

\* C7 amended: at every index of a group that noise rejection zeroes the
\* region sign is the region sign in force just before the group (the last
\* sign is carried forward); it is 0 only when no sign was set before the
\* group
C7_ZeroedGroupCarriesSign ==
  RegionsDone =>
    LET g == Groups(zero_crossings)
        rs == GroupCumsum(deriv, g)
    IN \A i \in Idx :
         NoiseRejected(rs, g, i) =>
           region_boundaries[i] = SignBeforeGroup(g, i)

\* a zeroed group with a non-zero running sum that follows a confirmed +1 or
\* -1 and carries it, after a zeroed group at the start that is neutral
C7_Witness ==
  /\ RegionsDone
  /\ LET g == Groups(zero_crossings)
         rs == GroupCumsum(deriv, g)
     IN \E i, j \in Idx :
          /\ NoiseRejected(rs, g, i) /\ region_boundaries[i] = Num(0)
          /\ NoiseRejected(rs, g, j)
          /\ region_boundaries[j] \in {Num(1), Num(-1)}
          /\ \E k \in DefinedIn(rs, g, j) : rs[k].v # 0

\* the search window of the k-th boundary: from the preceding boundary (index
\* 0 for the first boundary) less the padding to the boundary plus the
\* padding, clamped to the series
Window(k) ==
  LET ts == region_change_timestamps
      prev == IF k = 1 THEN 0 ELSE ts[k - 1]
  IN Max2(0, prev - X)..Min2(N - 1, ts[k] + X)

\* C5: for every boundary b, when the leg that ends at b was an up-leg a
\* high marker is recorded at an index of the window whose High is the
\* largest of the window, when it was a down-leg a low marker at an index of
\* the window whose Low is the smallest of the window; every marker index
\* lies in 0..N-1
C5_ExtremumInWindow ==
  MarkersDone =>
    /\ \A k \in 1..Len(region_change_timestamps) :
         LET b == region_change_timestamps[k]
         IN /\ region_boundaries[b - 1] = Num(1) =>
                 \E m \in Range(high_markers) \cap Window(k) :
                   \A x \in Window(k) : High[x] <= High[m]
            /\ region_boundaries[b - 1] = Num(-1) =>
                 \E m \in Range(low_markers) \cap Window(k) :
                   \A x \in Window(k) : Low[x] >= Low[m]
    /\ Range(high_markers) \cup Range(low_markers) \subseteq Idx

\* the trend regions: the maximal runs of positions that share one non-zero
\* region sign, counted by their first positions
TrendRegionStarts ==
  {i \in Idx : /\ region_boundaries[i] # Num(0)
               /\ (i = 0 \/ region_boundaries[i - 1] # region_boundaries[i])}

\* C8 as stated, on the runs whose cumulative derivative has no undefined
\* entry: every trend region, the one after the last boundary included,
\* contributes exactly one marker
C8_OneMarkerPerRegion ==
  (MarkersDone /\ AllDefined) =>
    Len(high_markers) + Len(low_markers) = Cardinality(TrendRegionStarts)

\* the boundaries (by their place in regionChangeIndices) where the region
\* sign is sgn
SignedBoundaries(sgn) ==
  SelectSeq([k \in 1..Len(region_change_timestamps) |-> k],
            LAMBDA k : region_boundaries[region_change_timestamps[k]]
                         = Num(sgn))

\* C8 amended: the markers correspond one to one, in order, to the
\* boundaries at which the region sign is +1 or -1: a high marker for each
\* boundary where the sign becomes -1, a low marker for each boundary where it
\* becomes +1, each inside the window of its boundary; a boundary with an
\* undefined region sign and the region after the last boundary contribute
\* no marker; markers of different boundaries stay separate list entries
C8_OneMarkerPerSignedBoundary ==
  MarkersDone =>
    LET hb == SignedBoundaries(-1)
        lb == SignedBoundaries(1)
    IN /\ Len(high_markers) = Len(hb)
       /\ Len(low_markers) = Len(lb)
       /\ \A j \in 1..Len(hb) : high_markers[j] \in Window(hb[j])
       /\ \A j \in 1..Len(lb) : low_markers[j] \in Window(lb[j])

\* a run without undefined entries that ends in a marked down-turn: one
\* boundary, one high marker, and two trend regions
C8_Witness ==
  /\ MarkersDone /\ AllDefined
  /\ Len(region_change_timestamps) = 1
  /\ Len(high_markers) = 1 /\ Len(low_markers) = 0
  /\ Cardinality(TrendRegionStarts) = 2

\* the largest position the scan read
LastScanned == CHOOSE i \in scanned : \A j \in scanned : j <= i

\* the boundary case of C6: the cursor is exhausted right after the point at
\* i, or i is the last position the scan read
BoundaryCase(i) == i + 1 >= N - look_ahead \/ i = LastScanned

\* C6: every swing High emitted at i with value v is followed by some j,
\* i < j <= i + lookAhead, with Low[j] <= v * (1 - swingPercent/100), unless
\* i is the last index scanned before the cursor is exhausted; symmetrically
\* every swing Low is followed by some j with
\* High[j] >= v * (1 + swingPercent/100)
C6_ConfirmationInvariant ==
  pc = "detected" =>
    /\ \A i \in DOMAIN highs :
         \/ \E j \in ((i + 1)..(i + look_ahead)) \cap Idx :
              100 * Low[j] <= highs[i] * (100 - swing_percent)
         \/ BoundaryCase(i)
    /\ \A i \in DOMAIN lows :
         \/ \E j \in ((i + 1)..(i + look_ahead)) \cap Idx :
              100 * High[j] >= lows[i] * (100 + swing_percent)
         \/ BoundaryCase(i)

\* the final lookAhead window of the series: the positions >= N - lookAhead
FinalWindow == {i \in Idx : i >= N - look_ahead}

\* C11: in a run of detect with lookAhead < N the scan reads High or Low at
\* no position of the final lookAhead window (no index >= N - lookAhead),
\* emits no swing point at such a position, and every position it reads lies
\* in 0..N-1
C11_TailNeverEvaluated ==
  (pc \in {"detect", "detected"} /\ look_ahead < N) =>
    /\ scanned \cap FinalWindow = {}
    /\ (DOMAIN highs \cup DOMAIN lows) \cap FinalWindow = {}
    /\ scanned \subseteq Idx

\* the kind of marker appended for the k-th boundary: a high marker when the
\* sign in force at the boundary is -1, a low marker when it is +1
MarkerKind(k) ==
  LET sgn == region_boundaries[region_change_timestamps[k]]
  IN IF sgn = Num(-1) THEN "high" ELSE IF sgn = Num(1) THEN "low" ELSE "none"

\* C12: when every value of the cumulative derivative is defined, the region
\* sign never returns to 0 once it is non-zero, the signs in force at
\* consecutive entries of regionChangeIndices are +1 and -1 in strict
\* alternation, and so the markers appended by identify_high_low_markers, one
\* per boundary in boundary order, alternate between high and low
C12_SignsAndMarkersAlternate ==
  (RegionsDone /\ AllDefined) =>
    LET ts == region_change_timestamps
    IN /\ \A i \in Idx \ {0} :
            region_boundaries[i - 1] # Num(0) => region_boundaries[i] # Num(0)
       /\ \A k \in 1..Len(ts) :
            region_boundaries[ts[k]] \in {Num(1), Num(-1)}
       /\ \A k \in 1..(Len(ts) - 1) :
            region_boundaries[ts[k + 1]] = Neg(region_boundaries[ts[k]])
       /\ MarkersDone =>
            /\ \A k \in 1..Len(ts) : MarkerKind(k) \in {"high", "low"}
            /\ \A k \in 1..(Len(ts) - 1) : MarkerKind(k + 1) # MarkerKind(k)
            /\ Len(high_markers)
                 = Cardinality({k \in 1..Len(ts) : MarkerKind(k) = "high"})
            /\ Len(low_markers)
                 = Cardinality({k \in 1..Len(ts) : MarkerKind(k) = "low"})

\* a run without undefined entries with two boundaries: a high marker and a
\* low marker have been appended
C12_Witness ==
  /\ MarkersDone /\ AllDefined
  /\ Len(region_change_timestamps) >= 2
  /\ Len(high_markers) >= 1 /\ Len(low_markers) >= 1

\* C13: once main has performed its final save the pickle file holds the
\* previously saved rows followed by every kline fetched during the run,
\* exactly once and in fetch order, also when the loop was cut short by a
\* failed fetch, a KeyboardInterrupt or another exception
C13_FileIsPreviousThenFetched ==
  pc = "fetch_done" =>
    Rows(pickle_file) = Rows(previous_rows) \o fetched

====
